---- MODULE Spec2Model ----
(***************************************************************************)
(* Model of the yozefu TUI panels:                                         *)
(*   crates/tui/src/component/vertical_scrollable_block.rs                 *)
(*   crates/tui/src/component/topic_details_component.rs                   *)
(*   crates/tui/src/component/record_details_component.rs                  *)
(*   crates/tui/src/component/schemas_component.rs                         *)
(*   crates/tui/src/component/help_component.rs                            *)
(*                                                                         *)
(* Option<T> is a sequence of length <= 1: None is << >>, Some(x) is <<x>>.*)
(* Result<Option<Action>, TuiError> is [ok, val]: Ok(v) is                 *)
(* [ok |-> TRUE, val |-> v], Err(_) is [ok |-> FALSE, val |-> None].       *)
(* A handler is an operator returning [c, res, sent, panic]: the component *)
(* after the call, the returned value, the actions accepted by the channel *)
(* in order, and whether the call panicked (the process then terminates).  *)
(***************************************************************************)
EXTENDS Integers, Sequences, FiniteSets, TLC

VARIABLES
    vsb,      \* VerticalScrollableBlock<C>: scroll, scroll_length, scrollbar_state, component
    chan,     \* the action channel: [open, queue]
    crashed,  \* TRUE once a handler panicked
    last,     \* the call that produced the current state, and the decorator's offset before it
    track,    \* "bottom" after key ], "grew" once the content grew since, "none" otherwise
    focus,    \* the panel that receives the input: "Decorator", "Help", "RecordDetails", "Schemas"
    help,     \* HelpComponent
    rd,       \* RecordDetailsComponent
    sc,       \* SchemasComponent
    run,      \* the presses counted in a run of one scroll key: [n, framed, drawn, ups]
    host,     \* the host loop's dispatch pass and the log of publications and deliveries
    td        \* TopicDetailsComponent on its own, outside the decorator

panels == <<focus, help, rd, sc, run, host, td>>
vars == <<vsb, chan, crashed, last, track, focus, help, rd, sc, run, host, td>>

-----------------------------------------------------------------------------
(* Bounds of the model *)

MaxHeight == 3      \* rectangle heights 0..MaxHeight are drawn
MaxGroups == 3      \* consumer groups of the first topic detail
MaxQueue == 2       \* actions in flight on the channel
MaxOffset == 3      \* next-line presses a ScrollState panel takes between two draws
MaxBound == 2       \* the largest scroll bound a ScrollState panel is drawn with
MaxRendered == 2    \* draws of the help panel between two key events
MaxProperties == 1  \* consumer properties the help panel lists
MaxPresses == 32    \* next-line presses counted in one run
MaxPublished == 3   \* actions published while the host loop is followed

-----------------------------------------------------------------------------
(* Values *)

None == << >>
Some(x) == <<x>>

Ok(v) == [ok |-> TRUE, val |-> v]
Err == [ok |-> FALSE, val |-> None]

U16_MAX == 65535

Min(a, b) == IF a < b THEN a ELSE b

\* KeyEvent: the key code and whether the CONTROL modifier is held
Key(c, m) == [code |-> c, ctrl |-> m]
NoKey == Key("none", FALSE)
ScrollCodes == {"j", "Down", "k", "Up", "[", "]"}
Keys == {Key(c, FALSE) : c \in ScrollCodes \cup {"p", "x"}} \cup {Key("p", TRUE)}

\* Action variants
NoAction == [type |-> "None"]
Tick == [type |-> "Tick"]
TopicDetailsAction(d) == [type |-> "TopicDetails", details |-> d]
RequestTopicDetails(h) == [type |-> "RequestTopicDetails", names |-> h]
Notification(l, m) == [type |-> "Notification", level |-> l, message |-> m]
NewView(n) == [type |-> "NewView", view |-> n]

\* TopicDetail: the name and the number of consumer groups (the fields the panels read)
TopicDetail(n, g) == [name |-> n, groups |-> g]
DetailsSet ==
    {<< >>}
    \cup {<<TopicDetail("a", MaxGroups)>>}
    \cup {<<TopicDetail("a", MaxGroups), TopicDetail("b", 1)>>}

RECURSIVE SumGroups(_)
SumGroups(d) == IF d = << >> THEN 0 ELSE Head(d).groups + SumGroups(Tail(d))

Names(d) == {d[i].name : i \in 1..Len(d)}

-----------------------------------------------------------------------------

-----------------------------------------------------------------------------
(* TopicDetailsComponent *)

TopicDetails_default ==
    [kind |-> "TopicDetails", details |-> << >>, action_tx |-> None,
     selected |-> None, refreshing_data |-> FALSE, throbber |-> 0]

TopicDetails_content_height(c) == SumGroups(c.details)

\* past the last row the selection starts over
Mutant_next_wraps(c) ==
    LET n == SumGroups(c.details) IN
    IF n = 0 THEN [c EXCEPT !.selected = None]
    ELSE IF c.selected = None THEN [c EXCEPT !.selected = Some(0)]
    ELSE LET i == c.selected[1] IN
         [c EXCEPT !.selected = Some(IF i >= n - 1 THEN 0 ELSE i + 1)]

TopicDetails_next(c) ==
    LET n == SumGroups(c.details) IN
    IF n = 0 THEN [c EXCEPT !.selected = None]
    ELSE IF c.selected = None THEN [c EXCEPT !.selected = Some(0)]
    ELSE LET i == c.selected[1] IN
         [c EXCEPT !.selected = Some(IF i >= n - 1 THEN i ELSE i + 1)]

TopicDetails_previous(c) ==
    LET n == SumGroups(c.details) IN
    IF n = 0 THEN [c EXCEPT !.selected = None]
    ELSE IF c.selected = None THEN [c EXCEPT !.selected = Some(0)]
    ELSE LET i == c.selected[1] IN
         [c EXCEPT !.selected = Some(IF i = 0 THEN 0 ELSE i - 1)]

TopicDetails_first(c) ==
    IF SumGroups(c.details) = 0 THEN [c EXCEPT !.selected = None]
    ELSE [c EXCEPT !.selected = Some(0)]

TopicDetails_last(c) ==
    LET n == SumGroups(c.details) IN
    IF n = 0 THEN [c EXCEPT !.selected = None]
    ELSE [c EXCEPT !.selected = Some(n - 1)]

\* the request is sent before the notification
Mutant_refresh_requests_first(c, open) ==
    LET c1 == [c EXCEPT !.refreshing_data = TRUE]
        msgs == <<RequestTopicDetails(Names(c.details)), Notification("Info", "Refreshing data")>>
    IN  IF c.action_tx = None \/ ~open
        THEN [c |-> c1, res |-> Ok(None), sent |-> << >>, panic |-> TRUE]
        ELSE [c |-> c1, res |-> Ok(None), sent |-> msgs, panic |-> FALSE]

\* Ctrl+P: both sends are unwrapped, as is the sender
TopicDetails_refresh(c, open) ==
    LET c1 == [c EXCEPT !.refreshing_data = TRUE]
        msgs == <<Notification("Info", "Refreshing data"), RequestTopicDetails(Names(c.details))>>
    IN  IF c.action_tx = None THEN [c |-> c1, res |-> Ok(None), sent |-> << >>, panic |-> TRUE]
        ELSE IF ~open THEN [c |-> c1, res |-> Ok(None), sent |-> << >>, panic |-> TRUE]
        ELSE [c |-> c1, res |-> Ok(None), sent |-> msgs, panic |-> FALSE]

TopicDetails_handle_key_events(c, key, open) ==
    LET quiet(c1) == [c |-> c1, res |-> Ok(None), sent |-> << >>, panic |-> FALSE] IN
    CASE key.code \in {"j", "Down"} -> quiet(TopicDetails_next(c))
      [] key.code \in {"k", "Up"}   -> quiet(TopicDetails_previous(c))
      [] key.code = "["             -> quiet(TopicDetails_first(c))
      [] key.code = "]"             -> quiet(TopicDetails_last(c))
      [] key.code = "p" /\ key.ctrl -> TopicDetails_refresh(c, open)
      [] OTHER                      -> quiet(c)

\* a request sets the flag whatever the panel holds
Mutant_update_request_always_refreshes(c, action) ==
    LET c1 ==
        CASE action.type = "Tick" -> [c EXCEPT !.throbber = c.throbber + 1]
          [] action.type = "TopicDetails" ->
                [c EXCEPT !.refreshing_data = FALSE, !.details = action.details]
          [] action.type = "RequestTopicDetails" -> [c EXCEPT !.refreshing_data = TRUE]
          [] OTHER -> c
    IN [c |-> c1, res |-> Ok(None), sent |-> << >>, panic |-> FALSE]

TopicDetails_update(c, action) ==
    LET c1 ==
        CASE action.type = "Tick" -> [c EXCEPT !.throbber = c.throbber + 1]
          [] action.type = "TopicDetails" ->
                [c EXCEPT !.refreshing_data = FALSE, !.details = action.details]
          [] action.type = "RequestTopicDetails" ->
                IF c.details # << >> THEN [c EXCEPT !.refreshing_data = TRUE] ELSE c
          [] OTHER -> c
    IN [c |-> c1, res |-> Ok(None), sent |-> << >>, panic |-> FALSE]

-----------------------------------------------------------------------------
(* C: WithHeight, any other component the decorator may wrap.  Its handlers *)
(* return any value of the declared result type (`choice`); it remembers   *)
(* the last call it handled.                                               *)

Choices == {Ok(None), Ok(Some(NewView("Help"))), Err}

Any_component(h) == [kind |-> "Any", height |-> h, handled |-> "none"]

Any_call(c, what, choice) ==
    [c |-> [c EXCEPT !.handled = what], res |-> choice, sent |-> << >>, panic |-> FALSE]

-----------------------------------------------------------------------------
(* The inner component's operations, dispatched on the concrete type *)

Inner_content_height(c) ==
    IF c.kind = "TopicDetails" THEN TopicDetails_content_height(c) ELSE c.height

Inner_handle_key_events(c, key, open, choice) ==
    IF c.kind = "TopicDetails" THEN TopicDetails_handle_key_events(c, key, open)
    ELSE Any_call(c, key.code, choice)

Inner_update(c, action, choice) ==
    IF c.kind = "TopicDetails" THEN TopicDetails_update(c, action)
    ELSE Any_call(c, action.type, choice)

\* Component::{id, shortcuts, handle_mouse_events, init}: TopicDetailsComponent defines
\* id and inherits the trait's defaults for the others
Component_default_shortcuts == << >>
Component_default_handle_mouse_events(c) ==
    [c |-> c, res |-> Ok(None), sent |-> << >>, panic |-> FALSE]
Component_default_init(c) ==
    [c |-> c, res |-> Ok(None), sent |-> << >>, panic |-> FALSE]

TopicDetails_id(c) == "TopicDetails"

TopicDetails_register_action_handler(c, tx) == [c EXCEPT !.action_tx = Some(tx)]

\* draw renders the panel; none of the fields modelled here is assigned by it
TopicDetails_draw(c) == c

Inner_id(c) == IF c.kind = "TopicDetails" THEN TopicDetails_id(c) ELSE "Any"

Inner_shortcuts(c) ==
    IF c.kind = "TopicDetails" THEN Component_default_shortcuts ELSE <<c.handled>>

Inner_handle_mouse_events(c, choice) ==
    IF c.kind = "TopicDetails" THEN Component_default_handle_mouse_events(c)
    ELSE Any_call(c, "mouse", choice)

Inner_init(c, choice) ==
    IF c.kind = "TopicDetails" THEN Component_default_init(c)
    ELSE Any_call(c, "init", IF choice.ok THEN Ok(None) ELSE Err)

Inner_register_action_handler(c, tx) ==
    IF c.kind = "TopicDetails" THEN TopicDetails_register_action_handler(c, tx)
    ELSE [c EXCEPT !.handled = "register"]

Inner_draw(c) == IF c.kind = "TopicDetails" THEN TopicDetails_draw(c) ELSE c

-----------------------------------------------------------------------------
(* VerticalScrollableBlock<C> *)

\* ratatui ScrollbarState: new(content_length), content_length(n), position(p)
ScrollbarState_new(n) == [content_length |-> n, position |-> 0]

VerticalScrollableBlock_new(component) ==
    [scroll |-> 0, scroll_length |-> 10,
     scrollbar_state |-> ScrollbarState_new(Inner_content_height(component)),
     component |-> component]

\* #[derive(Default)]
VerticalScrollableBlock_default ==
    [scroll |-> 0, scroll_length |-> 0,
     scrollbar_state |-> ScrollbarState_new(0),
     component |-> TopicDetails_default]

\* u16 arithmetic: a result above u16::MAX panics in a build with overflow checks
\* and wraps in a build without them
U16(n, checked) ==
    IF n <= U16_MAX THEN [val |-> n, panic |-> FALSE]
    ELSE [val |-> n % (U16_MAX + 1), panic |-> checked]

\* mutant: previous-line subtracts with wrap-around instead of saturating
Mutant_handle_key_events_wrapping_sub(v, key, open, choice, checked) ==
    LET own(s, p) == [c |-> [v EXCEPT !.scroll = s], res |-> Ok(None),
                      sent |-> << >>, panic |-> p]
    IN
    CASE key.code \in {"j", "Down"} ->
            LET n == U16(v.scroll + 1, checked) IN
            IF n.panic THEN own(v.scroll, TRUE)
            ELSE own(Min(n.val, v.scroll_length), FALSE)
      [] key.code \in {"k", "Up"} -> own((v.scroll - 1) % (U16_MAX + 1), FALSE)
      [] key.code = "[" -> own(0, FALSE)
      [] key.code = "]" -> own(v.scroll_length, FALSE)
      [] OTHER ->
            LET r == Inner_handle_key_events(v.component, key, open, choice) IN
            [c |-> [v EXCEPT !.component = r.c],
             res |-> IF r.res.ok THEN Ok(None) ELSE Err,
             sent |-> r.sent, panic |-> r.panic]

VerticalScrollableBlock_handle_key_events(v, key, open, choice, checked) ==
    LET own(s, p) == [c |-> [v EXCEPT !.scroll = s], res |-> Ok(None),
                      sent |-> << >>, panic |-> p]
    IN
    CASE key.code \in {"j", "Down"} ->
            LET n == U16(v.scroll + 1, checked) IN
            IF n.panic THEN own(v.scroll, TRUE)
            ELSE own(Min(n.val, v.scroll_length), FALSE)
      [] key.code \in {"k", "Up"} -> own(IF v.scroll = 0 THEN 0 ELSE v.scroll - 1, FALSE)
      [] key.code = "[" -> own(0, FALSE)
      [] key.code = "]" -> own(v.scroll_length, FALSE)
      [] OTHER ->
            LET r == Inner_handle_key_events(v.component, key, open, choice) IN
            [c |-> [v EXCEPT !.component = r.c],
             res |-> IF r.res.ok THEN Ok(None) ELSE Err,
             sent |-> r.sent, panic |-> r.panic]

VerticalScrollableBlock_handle_mouse_events(v, choice) ==
    LET r == Inner_handle_mouse_events(v.component, choice) IN
    [c |-> [v EXCEPT !.component = r.c], res |-> r.res, sent |-> r.sent, panic |-> r.panic]

\* mutant: update also rewinds the decorator's offset
Mutant_update_resets_scroll(v, action, choice) ==
    LET r == Inner_update(v.component, action, choice) IN
    [c |-> [v EXCEPT !.component = r.c, !.scroll = 0],
     res |-> r.res, sent |-> r.sent, panic |-> r.panic]

VerticalScrollableBlock_update(v, action, choice) ==
    LET r == Inner_update(v.component, action, choice) IN
    [c |-> [v EXCEPT !.component = r.c], res |-> r.res, sent |-> r.sent, panic |-> r.panic]

VerticalScrollableBlock_init(v, choice) ==
    LET r == Inner_init(v.component, choice) IN
    [c |-> [v EXCEPT !.component = r.c], res |-> r.res, sent |-> r.sent, panic |-> r.panic]

VerticalScrollableBlock_register_action_handler(v, tx) ==
    [v EXCEPT !.component = Inner_register_action_handler(v.component, tx)]

VerticalScrollableBlock_id(v) == Inner_id(v.component)

VerticalScrollableBlock_shortcuts(v) == Inner_shortcuts(v.component)

\* mutant: the branch for content that fits forgets `self.scroll = 0`
Mutant_draw_keeps_scroll(v, height, checked) ==
    LET content_height == Min(Inner_content_height(v.component), U16_MAX)
        cleared == [v.scrollbar_state EXCEPT !.content_length = 0]
    IN
    IF height < content_height
    THEN LET n == U16(content_height - height + 2, checked) IN
         IF n.panic
         THEN [c |-> [v EXCEPT !.scrollbar_state = cleared],
               res |-> Ok(None), sent |-> << >>, panic |-> TRUE]
         ELSE [c |-> [v EXCEPT !.scroll_length = n.val,
                               !.scrollbar_state =
                                   [content_length |-> n.val, position |-> v.scroll],
                               !.component = Inner_draw(v.component)],
               res |-> Ok(None), sent |-> << >>, panic |-> FALSE]
    ELSE [c |-> [v EXCEPT !.scrollbar_state = cleared,
                          !.component = Inner_draw(v.component)],
          res |-> Ok(None), sent |-> << >>, panic |-> FALSE]

VerticalScrollableBlock_draw(v, height, checked) ==
    LET content_height == Min(Inner_content_height(v.component), U16_MAX)
        cleared == [v.scrollbar_state EXCEPT !.content_length = 0]
    IN
    IF height < content_height
    THEN LET n == U16(content_height - height + 2, checked) IN
         IF n.panic
         THEN [c |-> [v EXCEPT !.scrollbar_state = cleared],
               res |-> Ok(None), sent |-> << >>, panic |-> TRUE]
         ELSE [c |-> [v EXCEPT !.scroll_length = n.val,
                               !.scrollbar_state =
                                   [content_length |-> n.val, position |-> v.scroll],
                               !.component = Inner_draw(v.component)],
               res |-> Ok(None), sent |-> << >>, panic |-> FALSE]
    ELSE [c |-> [v EXCEPT !.scrollbar_state = cleared,
                          !.scroll = 0,
                          !.component = Inner_draw(v.component)],
          res |-> Ok(None), sent |-> << >>, panic |-> FALSE]

-----------------------------------------------------------------------------
(* ScrollState (component/scroll_state.rs): the offset of a panel that scrolls   *)
(* itself, and the length of its scrollbar track (0 when the indicator is absent) *)

ScrollState_default == [offset |-> 0, track_length |-> 0]

ScrollState_scroll_to_next_line(s) == [s EXCEPT !.offset = s.offset + 1]

ScrollState_scroll_to_previous_line(s) ==
    [s EXCEPT !.offset = IF s.offset = 0 THEN 0 ELSE s.offset - 1]

ScrollState_scroll_to_top(s) == [s EXCEPT !.offset = 0]

\* "maximum": resolved against the bound by the next draw
ScrollState_scroll_to_bottom(s) == [s EXCEPT !.offset = U16_MAX]

ScrollState_reset(s) == [s EXCEPT !.offset = 0]

ScrollState_value(s) == s.offset

ScrollState_draw(s, height, length) ==
    LET bound == IF length > height THEN length - height ELSE 0 IN
    [offset |-> Min(s.offset, bound), track_length |-> bound]

-----------------------------------------------------------------------------
(* KafkaRecord and SchemaDetail: the fields the panels read *)

\* timestamp is Option<i64>; "huge" stands for a value chrono cannot represent
KafkaRecord(t, ts, h, ks, vs, n) ==
    [topic |-> t, timestamp |-> ts, headers |-> h, key_schema |-> ks,
     value_schema |-> vs, value_lines |-> n]

KafkaRecord_default == KafkaRecord("", None, 0, None, None, 1)

KafkaRecord_has_schemas(r) == r.key_schema # None \/ r.value_schema # None

\* chrono::DateTime::from_timestamp_millis: None outside the representable range
DateTime_from_timestamp_millis(ms) == IF ms = "huge" THEN None ELSE Some(ms)

SchemaDetail(id, n) == [id |-> id, lines |-> n]

-----------------------------------------------------------------------------
(* RecordDetailsComponent *)

NoLines == [of |-> None, theme |-> "none", len |-> 0]

RecordDetails_default ==
    [record |-> None, lines |-> NoLines, search_query |-> "", scroll |-> ScrollState_default,
     theme |-> None, action_tx |-> None]

\* the lines compute_record_rendering builds for a record: eight fixed lines, one
\* per header after the first, one per schema, "Key", "Value" and the highlighted value
RecordLines(r, theme) ==
    [of |-> Some(r), theme |-> theme,
     len |-> 8 + (IF r.headers > 1 THEN r.headers - 1 ELSE 0)
               + Len(r.key_schema) + Len(r.value_schema) + 2 + r.value_lines]

RecordDetails_compute_record_rendering(c) ==
    LET c1 == IF c.record = None THEN [c EXCEPT !.record = Some(KafkaRecord_default)] ELSE c
        theme == IF c1.theme = None THEN "light" ELSE c1.theme[1]
        record == c1.record[1]
        timestamp_in_millis == IF record.timestamp = None THEN "0" ELSE record.timestamp[1]
        published_at == DateTime_from_timestamp_millis(timestamp_in_millis)
    IN  IF published_at = None
        THEN [c |-> c1, panic |-> TRUE]
        ELSE [c |-> [c1 EXCEPT !.lines = RecordLines(record, theme),
                               !.scroll = ScrollState_reset(c1.scroll)],
              panic |-> FALSE]

Quiet(c) == [c |-> c, res |-> Ok(None), sent |-> << >>, panic |-> FALSE]
Panic(c) == [c |-> c, res |-> Ok(None), sent |-> << >>, panic |-> TRUE]

\* a send that succeeds without publishing
Mutant_SendOne_publishes_nothing(c, open, a) ==
    IF c.action_tx = None THEN Panic(c)
    ELSE IF ~open THEN [c |-> c, res |-> Err, sent |-> << >>, panic |-> FALSE]
    ELSE Quiet(c)

\* self.action_tx.as_ref().unwrap().send(a)?  and nothing after it
SendOne(c, open, a) ==
    IF c.action_tx = None THEN Panic(c)
    ELSE IF ~open THEN [c |-> c, res |-> Err, sent |-> << >>, panic |-> FALSE]
    ELSE [c |-> c, res |-> Ok(None), sent |-> <<a>>, panic |-> FALSE]

Open(r) == [type |-> "Open", record |-> r]
Export(r) == [type |-> "Export", record |-> r]
CopyToClipboard(payload) == [type |-> "CopyToClipboard", payload |-> payload]
RequestSchemasOf(k, v) == [type |-> "RequestSchemasOf", key |-> k, value |-> v]
ShowRecord(r) == [type |-> "ShowRecord", record |-> r]
Search(q) == [type |-> "Search", query |-> q]
SchemasAction(k, v) == [type |-> "Schemas", key |-> k, value |-> v]

SchemaId(s) == IF s = None THEN None ELSE Some(s[1].id)

\* the view is requested before the schemas
Mutant_show_schema_view_first(c, open) ==
    IF c.record # None /\ ~KafkaRecord_has_schemas(c.record[1]) THEN Quiet(c)
    ELSE IF c.record = None \/ c.action_tx = None THEN Panic(c)
    ELSE IF ~open THEN [c |-> c, res |-> Err, sent |-> << >>, panic |-> FALSE]
    ELSE LET r == c.record[1] IN
         [c |-> c, res |-> Ok(None),
          sent |-> <<NewView("Schemas"),
                     RequestSchemasOf(SchemaId(r.key_schema), SchemaId(r.value_schema))>>,
          panic |-> FALSE]

RecordDetails_show_schema(c, open) ==
    IF c.record # None /\ ~KafkaRecord_has_schemas(c.record[1]) THEN Quiet(c)
    ELSE IF c.record = None THEN Panic(c)
    ELSE IF c.action_tx = None THEN Panic(c)
    ELSE IF ~open THEN [c |-> c, res |-> Err, sent |-> << >>, panic |-> FALSE]
    ELSE LET r == c.record[1] IN
         [c |-> c, res |-> Ok(None),
          sent |-> <<RequestSchemasOf(SchemaId(r.key_schema), SchemaId(r.value_schema)),
                     NewView("Schemas")>>,
          panic |-> FALSE]

\* mutant: key o publishes Action::Open twice
Mutant_handle_key_events_opens_twice(c, key, open) ==
    CASE key.code = "j" -> Quiet([c EXCEPT !.scroll = ScrollState_scroll_to_next_line(c.scroll)])
      [] key.code = "k" -> Quiet([c EXCEPT !.scroll = ScrollState_scroll_to_previous_line(c.scroll)])
      [] key.code = "[" -> Quiet([c EXCEPT !.scroll = ScrollState_scroll_to_top(c.scroll)])
      [] key.code = "]" -> Quiet([c EXCEPT !.scroll = ScrollState_scroll_to_bottom(c.scroll)])
      [] key.code = "o" ->
            IF c.record # None /\ c.action_tx # None /\ open
            THEN [c |-> c, res |-> Ok(None), sent |-> <<Open(c.record[1]), Open(c.record[1])>>,
                  panic |-> FALSE]
            ELSE Quiet(c)
      [] key.code = "s" -> RecordDetails_show_schema(c, open)
      [] key.code = "c" ->
            IF c.record # None
            THEN SendOne(c, open, CopyToClipboard([record |-> c.record[1],
                                                   search_query |-> c.search_query]))
            ELSE Quiet(c)
      [] key.code = "e" ->
            IF c.record # None THEN SendOne(c, open, Export(c.record[1])) ELSE Quiet(c)
      [] OTHER -> Quiet(c)

RecordDetails_handle_key_events(c, key, open) ==
    CASE key.code = "j" -> Quiet([c EXCEPT !.scroll = ScrollState_scroll_to_next_line(c.scroll)])
      [] key.code = "k" -> Quiet([c EXCEPT !.scroll = ScrollState_scroll_to_previous_line(c.scroll)])
      [] key.code = "[" -> Quiet([c EXCEPT !.scroll = ScrollState_scroll_to_top(c.scroll)])
      [] key.code = "]" -> Quiet([c EXCEPT !.scroll = ScrollState_scroll_to_bottom(c.scroll)])
      [] key.code = "o" ->
            IF c.record # None THEN SendOne(c, open, Open(c.record[1])) ELSE Quiet(c)
      [] key.code = "s" -> RecordDetails_show_schema(c, open)
      [] key.code = "c" ->
            IF c.record # None
            THEN SendOne(c, open, CopyToClipboard([record |-> c.record[1],
                                                   search_query |-> c.search_query]))
            ELSE Quiet(c)
      [] key.code = "e" ->
            IF c.record # None THEN SendOne(c, open, Export(c.record[1])) ELSE Quiet(c)
      [] OTHER -> Quiet(c)

\* a search also scrolls back to the top
Mutant_update_search_resets_scroll(c, action) ==
    CASE action.type = "ShowRecord" ->
            LET r == RecordDetails_compute_record_rendering(
                         [c EXCEPT !.record = Some(action.record)])
            IN [c |-> r.c, res |-> Ok(None), sent |-> << >>, panic |-> r.panic]
      [] action.type = "Search" ->
            Quiet([c EXCEPT !.search_query = action.query,
                            !.scroll = ScrollState_reset(c.scroll)])
      [] OTHER -> Quiet(c)

\* mutant: an action of another variant clears the search query
Mutant_update_clears_query(c, action) ==
    CASE action.type = "ShowRecord" ->
            LET r == RecordDetails_compute_record_rendering(
                         [c EXCEPT !.record = Some(action.record)])
            IN [c |-> r.c, res |-> Ok(None), sent |-> << >>, panic |-> r.panic]
      [] action.type = "Search" -> Quiet([c EXCEPT !.search_query = action.query])
      [] OTHER -> Quiet([c EXCEPT !.search_query = ""])

RecordDetails_update(c, action) ==
    CASE action.type = "ShowRecord" ->
            LET r == RecordDetails_compute_record_rendering(
                         [c EXCEPT !.record = Some(action.record)])
            IN [c |-> r.c, res |-> Ok(None), sent |-> << >>, panic |-> r.panic]
      [] action.type = "Search" -> Quiet([c EXCEPT !.search_query = action.query])
      [] OTHER -> Quiet(c)

RecordDetails_register_action_handler(c, tx) == [c EXCEPT !.action_tx = Some(tx)]

\* the key codes handle_key_events has an arm for
RecordDetails_key_arms == {"j", "k", "[", "]", "o", "s", "c", "e"}

RecordDetails_shortcuts(c) ==
    <<"J/K", "UpDown">>
    \o (IF c.record # None /\ (c.record[1].key_schema # None \/ c.record[1].value_schema # None)
        THEN <<"S">> ELSE << >>)

\* ctx is the render context (State): theme and highlighter theme
RecordDetails_draw(c, height, ctx) ==
    LET c1 == IF c.theme = None THEN [c EXCEPT !.theme = Some(ctx.theme)] ELSE c IN
    Quiet([c1 EXCEPT !.scroll = ScrollState_draw(c1.scroll, height, c1.lines.len + 2)])

-----------------------------------------------------------------------------
(* SchemasComponent *)

Schemas_default ==
    [key |-> None, value |-> None, lines |-> NoLines, action_tx |-> None,
     scroll |-> ScrollState_default]

\* one URL line per schema, then a blank line, a title and the highlighted schema
SchemaLines(k, v) ==
    [of |-> <<k, v>>, theme |-> "none",
     len |-> Len(k) + Len(v)
             + (IF k = None THEN 0 ELSE 2 + k[1].lines)
             + (IF v = None THEN 0 ELSE 2 + v[1].lines)]

Schemas_compute_schemas_rendering(c) == [c EXCEPT !.lines = SchemaLines(c.key, c.value)]

Schemas_update(c, action) ==
    IF action.type = "Schemas"
    THEN LET c1 == Schemas_compute_schemas_rendering(
                       [c EXCEPT !.key = action.key, !.value = action.value])
         IN Quiet([c1 EXCEPT !.scroll = ScrollState_reset(c1.scroll)])
    ELSE Quiet(c)

Schemas_handle_key_events(c, key, open) ==
    CASE key.code \in {"j", "Down"} ->
            Quiet([c EXCEPT !.scroll = ScrollState_scroll_to_next_line(c.scroll)])
      [] key.code \in {"k", "Up"} ->
            Quiet([c EXCEPT !.scroll = ScrollState_scroll_to_previous_line(c.scroll)])
      [] key.code = "[" -> Quiet([c EXCEPT !.scroll = ScrollState_scroll_to_top(c.scroll)])
      [] key.code = "]" -> Quiet([c EXCEPT !.scroll = ScrollState_scroll_to_bottom(c.scroll)])
      [] key.code = "c" ->
            SendOne(c, open, CopyToClipboard([key |-> c.key, value |-> c.value]))
      [] OTHER -> Quiet(c)

Schemas_register_action_handler(c, tx) == [c EXCEPT !.action_tx = Some(tx)]

Schemas_draw(c, height, ctx) ==
    Quiet([c EXCEPT !.scroll = ScrollState_draw(c.scroll, height, c.lines.len + 2)])

-----------------------------------------------------------------------------
(* HelpComponent *)

TEN_MINUTES_FRAME == 18000

Help_default == [scroll |-> ScrollState_default, rendered |-> 0]

\* only the scroll keys reset the counter
Mutant_handle_key_events_counts_on(c, key, open) ==
    LET c0 == [c EXCEPT !.rendered = 0] IN
    CASE key.code \in {"j", "Down"} ->
            Quiet([c0 EXCEPT !.scroll = ScrollState_scroll_to_next_line(c.scroll)])
      [] key.code \in {"k", "Up"} ->
            Quiet([c0 EXCEPT !.scroll = ScrollState_scroll_to_previous_line(c.scroll)])
      [] key.code = "[" -> Quiet([c0 EXCEPT !.scroll = ScrollState_scroll_to_top(c.scroll)])
      [] key.code = "]" -> Quiet([c0 EXCEPT !.scroll = ScrollState_scroll_to_bottom(c.scroll)])
      [] OTHER -> Quiet(c)

Help_handle_key_events(c, key, open) ==
    LET c0 == [c EXCEPT !.rendered = 0] IN
    CASE key.code \in {"j", "Down"} ->
            Quiet([c0 EXCEPT !.scroll = ScrollState_scroll_to_next_line(c.scroll)])
      [] key.code \in {"k", "Up"} ->
            Quiet([c0 EXCEPT !.scroll = ScrollState_scroll_to_previous_line(c.scroll)])
      [] key.code = "[" -> Quiet([c0 EXCEPT !.scroll = ScrollState_scroll_to_top(c.scroll)])
      [] key.code = "]" -> Quiet([c0 EXCEPT !.scroll = ScrollState_scroll_to_bottom(c.scroll)])
      [] OTHER -> Quiet(c0)

\* 49 fixed lines, one per consumer property shown, one for the schema registry
Help_number_of_lines(ctx) ==
    49 + ctx.properties + (IF ctx.schema_registry THEN 1 ELSE 0)

\* the name the highlighter line unwraps: "unknown" without a highlighter theme,
\* the theme's optional name with one
Help_highlighter_name(ctx) ==
    IF ctx.highlighter_theme = None THEN Some("unknown") ELSE ctx.highlighter_theme[1]

\* a draw that also scrolls one line down
Mutant_draw_scrolls(c, height, ctx) ==
    IF ctx.highlighter_theme # None /\ ctx.highlighter_theme[1] = None
    THEN Panic(c)
    ELSE Quiet([c EXCEPT !.scroll = ScrollState_draw(ScrollState_scroll_to_next_line(c.scroll),
                                                     height, Help_number_of_lines(ctx) + 2),
                         !.rendered = c.rendered + 1])

\* the highlighter line unwraps the theme's name
Help_draw(c, height, ctx) ==
    IF Help_highlighter_name(ctx) = None
    THEN Panic(c)
    ELSE Quiet([c EXCEPT !.scroll = ScrollState_draw(c.scroll, height,
                                                     Help_number_of_lines(ctx) + 2),
                         !.rendered = c.rendered + 1])

\* whether draw overlays the issue component
Help_draws_issue(c) == c.rendered > TEN_MINUTES_FRAME

-----------------------------------------------------------------------------
(* The state machine of one decorated panel *)

CallOf(panel, op, key, arg, height, choice, res, was) ==
    [panel |-> panel, op |-> op, key |-> key, arg |-> arg, height |-> height,
     choice |-> choice, res |-> res, was |-> was]

Call(op, key, arg, height, choice, res) ==
    CallOf("Decorator", op, key, arg, height, choice, res,
           [scroll |-> vsb.scroll, scroll_length |-> vsb.scroll_length])

\* the content height the decorator reads in draw
ContentHeight(v) == Min(Inner_content_height(v.component), U16_MAX)

TrackKey(key) == IF key.code = "]" THEN "bottom" ELSE "none"

TrackUpdate(before, after) ==
    IF ContentHeight(after) > ContentHeight(before) /\ track # "none" THEN "grew"
    ELSE IF ContentHeight(after) < ContentHeight(before) THEN "none"
    ELSE track

TrackDraw(v, height) == IF height < ContentHeight(v) THEN track ELSE "none"

ContentHeights == {0, MaxGroups + 2}

\* the order in which the host broadcasts to the panels
PanelOrder == <<"Decorator", "Help", "RecordDetails", "Schemas">>

\* no dispatch pass is followed
NoHost ==
    [pass |-> 0, batch |-> << >>, at |-> 1, published |-> << >>,
     delivered |-> [p \in {PanelOrder[i] : i \in 1..Len(PanelOrder)} |-> << >>]]

\* no run of presses is counted
NoRun == [n |-> -1, framed |-> FALSE, drawn |-> FALSE, ups |-> -1]

\* the results a handler of the inner component can return
ChoicesOf(c) == IF c.kind = "TopicDetails" THEN {Ok(None)} ELSE Choices

RectHeights == (MaxHeight - 1)..MaxHeight

Init ==
    /\ vsb \in {VerticalScrollableBlock_default,
                VerticalScrollableBlock_new(TopicDetails_default)}
               \cup {VerticalScrollableBlock_new(Any_component(h)) : h \in ContentHeights}
    /\ chan = [open |-> TRUE, queue |-> << >>]
    /\ crashed = FALSE
    /\ last = Call("new", NoKey, NoAction, 0, Ok(None), Ok(None))
    /\ track = "none"
    /\ focus = "Decorator"
    /\ help = Help_default
    /\ rd = RecordDetails_default
    /\ sc = Schemas_default
    /\ run = NoRun
    /\ host = NoHost
    /\ td = TopicDetails_default

\* the effect of a handler's outcome r on the state
Apply(r, call, t) ==
    /\ focus = "Decorator"
    /\ UNCHANGED panels
    /\ track' = t
    /\ vsb' = r.c
    /\ chan' = [chan EXCEPT !.queue = chan.queue \o r.sent]
    /\ crashed' = r.panic
    /\ last' = call

KeyEvent(K) ==
    \E key \in K, choice \in ChoicesOf(vsb.component), checked \in BOOLEAN :
        LET r == VerticalScrollableBlock_handle_key_events(vsb, key, chan.open, choice, checked) IN
        /\ ~crashed
        /\ Len(chan.queue) + Len(r.sent) <= MaxQueue
        /\ Apply(r, Call("handle_key_events", key, NoAction, 0, choice, r.res), TrackKey(key))

MouseEvent ==
    \E choice \in ChoicesOf(vsb.component) :
        LET r == VerticalScrollableBlock_handle_mouse_events(vsb, choice) IN
        /\ ~crashed
        /\ Apply(r, Call("handle_mouse_events", NoKey, NoAction, 0, choice, r.res), track)

UpdateInputs ==
    {NewView("Schemas"), RequestTopicDetails({"a"})}
    \cup {TopicDetailsAction(d) : d \in DetailsSet}

\* the host delivers an action to the panel's update
Update(A) ==
    \E action \in A, choice \in ChoicesOf(vsb.component) :
        LET r == VerticalScrollableBlock_update(vsb, action, choice) IN
        /\ ~crashed
        /\ Apply(r, Call("update", NoKey, action, 0, choice, r.res), TrackUpdate(vsb, r.c))

\* the host takes the oldest action off the channel and delivers it
Dispatch ==
    \E choice \in ChoicesOf(vsb.component) :
        /\ ~crashed
        /\ chan.queue # << >>
        /\ LET action == Head(chan.queue)
               r == VerticalScrollableBlock_update(vsb, action, choice) IN
           /\ vsb' = r.c
           /\ chan' = [chan EXCEPT !.queue = Tail(chan.queue)]
           /\ crashed' = r.panic
           /\ last' = Call("update", NoKey, action, 0, choice, r.res)
           /\ track' = TrackUpdate(vsb, r.c)
           /\ UNCHANGED panels

InitCall ==
    \E choice \in ChoicesOf(vsb.component) :
        LET r == VerticalScrollableBlock_init(vsb, choice) IN
        /\ ~crashed
        /\ Apply(r, Call("init", NoKey, NoAction, 0, choice, r.res), track)

RegisterActionHandler ==
    /\ ~crashed
    /\ vsb' = VerticalScrollableBlock_register_action_handler(vsb, "tx")
    /\ last' = Call("register_action_handler", NoKey, NoAction, 0, Ok(None), Ok(None))
    /\ UNCHANGED <<chan, crashed, track, panels>>

Id ==
    /\ ~crashed
    /\ last' = Call("id", NoKey, NoAction, 0, Ok(None),
                    Ok(Some(VerticalScrollableBlock_id(vsb))))
    /\ UNCHANGED <<vsb, chan, crashed, track, panels>>

Shortcuts ==
    /\ ~crashed
    /\ last' = Call("shortcuts", NoKey, NoAction, 0, Ok(None),
                    Ok(VerticalScrollableBlock_shortcuts(vsb)))
    /\ UNCHANGED <<vsb, chan, crashed, track, panels>>

Draw ==
    \E height \in RectHeights, checked \in BOOLEAN :
        LET r == VerticalScrollableBlock_draw(vsb, height, checked) IN
        /\ ~crashed
        /\ Apply(r, Call("draw", NoKey, NoAction, height, Ok(None), r.res), TrackDraw(vsb, height))

\* the receiver is dropped
CloseChannel ==
    /\ ~crashed
    /\ chan.open
    /\ chan' = [chan EXCEPT !.open = FALSE]
    /\ last' = Call("close", NoKey, NoAction, 0, Ok(None), Ok(None))
    /\ UNCHANGED <<vsb, crashed, track, panels>>

ScrollKeys == {Key(c, FALSE) : c \in ScrollCodes}

\* The decorator's scroll machine: scroll keys, a key it passes on, content that
\* grows and shrinks, and frames of several heights
Next ==
    \/ KeyEvent(ScrollKeys \cup {Key("x", FALSE)})
    \/ Update({TopicDetailsAction(d) : d \in DetailsSet})
    \/ Draw

Spec == Init /\ [][Next]_vars

\* The decorator's delegation: every operation of the Component contract, with the
\* channel the inner panel publishes on
NextDelegate ==
    \/ KeyEvent(Keys)
    \/ MouseEvent
    \/ Update(UpdateInputs)
    \/ Dispatch
    \/ InitCall
    \/ RegisterActionHandler
    \/ Id
    \/ Shortcuts
    \/ CloseChannel

SpecDelegate == Init /\ [][NextDelegate]_vars

-----------------------------------------------------------------------------
(* The state machine of the panels that scroll themselves.  One panel is focused *)
(* and receives the keys, the actions and the frames.                            *)

R1 == KafkaRecord("orders", None, 0, None, None, 1)
R2 == KafkaRecord("orders", Some("t1"), 2, Some([id |-> "k1"]), None, 2)
R3 == KafkaRecord("orders", Some("huge"), 0, None, Some([id |-> "v1"]), 1)
Records == {R1, R2, R3}

S1 == SchemaDetail("k1", 1)
S2 == SchemaDetail("v1", 2)
SchemaPairs == {<<None, None>>, <<Some(S1), None>>, <<Some(S1), Some(S2)>>}

Contexts ==
    {[theme |-> "dark", highlighter_theme |-> h, properties |-> MaxProperties,
      schema_registry |-> FALSE] : h \in {None, Some(Some("base16")), Some(None)}}

PanelNames == {"Help", "RecordDetails", "Schemas"}

Panel == CASE focus = "Help" -> help
           [] focus = "RecordDetails" -> rd
           [] focus = "Schemas" -> sc

Panel_handle_key_events(c, key, open) ==
    CASE focus = "Help" -> Help_handle_key_events(c, key, open)
      [] focus = "RecordDetails" -> RecordDetails_handle_key_events(c, key, open)
      [] focus = "Schemas" -> Schemas_handle_key_events(c, key, open)

\* HelpComponent inherits Component::update, which ignores the action
Panel_update(c, action) ==
    CASE focus = "Help" -> Quiet(c)
      [] focus = "RecordDetails" -> RecordDetails_update(c, action)
      [] focus = "Schemas" -> Schemas_update(c, action)

Panel_draw(c, height, ctx) ==
    CASE focus = "Help" -> Help_draw(c, height, ctx)
      [] focus = "RecordDetails" -> RecordDetails_draw(c, height, ctx)
      [] focus = "Schemas" -> Schemas_draw(c, height, ctx)

\* the content length the panel hands to ScrollState::draw
Panel_length(c, ctx) ==
    CASE focus = "Help" -> Help_number_of_lines(ctx) + 2
      [] focus = "RecordDetails" -> c.lines.len + 2
      [] focus = "Schemas" -> c.lines.len + 2

InitPanels ==
    /\ focus \in PanelNames \cup {"Decorator"}
    /\ vsb \in {VerticalScrollableBlock_default}
               \cup {VerticalScrollableBlock_new(Any_component(h)) : h \in ContentHeights}
    /\ focus \in PanelNames => vsb = VerticalScrollableBlock_default
    /\ chan = [open |-> TRUE, queue |-> << >>]
    /\ crashed = FALSE
    /\ last = Call("new", NoKey, NoAction, 0, Ok(None), Ok(None))
    /\ track = "none"
    /\ help = Help_default
    /\ rd = RecordDetails_default
    /\ sc = Schemas_default
    /\ run = NoRun
    /\ host = NoHost
    /\ td = TopicDetails_default

ApplyPanel(r, call) ==
    /\ help' = IF focus = "Help" THEN r.c ELSE help
    /\ rd' = IF focus = "RecordDetails" THEN r.c ELSE rd
    /\ sc' = IF focus = "Schemas" THEN r.c ELSE sc
    /\ chan' = [chan EXCEPT !.queue = chan.queue \o r.sent]
    /\ crashed' = r.panic
    /\ last' = call
    /\ UNCHANGED <<vsb, track, focus, run, host, td>>

Was(c) == [scroll |-> c.scroll.offset, scroll_length |-> c.scroll.track_length]

\* the model follows a bounded number of presses past the last frame
WithinOffsets(c, key) ==
    /\ key.code \in {"j", "Down"} => c.scroll.offset < MaxOffset
    /\ key.code \in {"k", "Up"} =>
           c.scroll.offset <= MaxOffset \/ c.scroll.offset > U16_MAX - MaxOffset

PanelKeyEvent(K) ==
    \E key \in K :
        /\ ~crashed
        /\ focus \in PanelNames
        /\ WithinOffsets(Panel, key)
        /\ LET r == Panel_handle_key_events(Panel, key, chan.open) IN
           /\ Len(chan.queue) + Len(r.sent) <= MaxQueue
           /\ ApplyPanel(r, CallOf(focus, "handle_key_events", key, NoAction, 0,
                                   Ok(None), r.res, Was(Panel)))

PanelUpdate(A) ==
    \E action \in A :
        /\ ~crashed
        /\ focus \in PanelNames
        /\ LET r == Panel_update(Panel, action) IN
           ApplyPanel(r, CallOf(focus, "update", NoKey, action, 0, Ok(None), r.res,
                                Was(Panel)))

\* frames are drawn at the height that leaves MaxBound lines to scroll, and at the
\* height the content fits
PanelHeights(length) ==
    {h \in {length - MaxBound, length} : h >= 0}

PanelDraw ==
    /\ ~crashed
    /\ focus \in PanelNames
    /\ focus = "Help" => help.rendered < MaxRendered
    /\ \E ctx \in Contexts :
           \E height \in PanelHeights(Panel_length(Panel, ctx)) :
               LET r == Panel_draw(Panel, height, ctx) IN
               ApplyPanel(r, CallOf(focus, "draw", NoKey,
                                    [type |-> "None", length |-> Panel_length(Panel, ctx)],
                                    height, Ok(None), r.res, Was(Panel)))

PanelKeys == {Key(c, FALSE) : c \in ScrollCodes \cup {"x"}}

PanelInputs ==
    {ShowRecord(r) : r \in Records}
    \cup {SchemasAction(kv[1], kv[2]) : kv \in SchemaPairs}
    \cup {Search("q")}

NextPanels ==
    \/ PanelKeyEvent(PanelKeys)
    \/ PanelUpdate(PanelInputs)
    \/ PanelDraw
    \/ KeyEvent(ScrollKeys)
    \/ Draw

SpecPanels == InitPanels /\ [][NextPanels]_vars

-----------------------------------------------------------------------------
(* The scenario of a 45-line content in a rectangle of height 20, under the       *)
(* decorator.  run.n counts the next-line presses since the offset was 0 (-1 once *)
(* another scroll key interrupted them); run.drawn tells whether a frame has been *)
(* drawn, run.framed whether one had been drawn when the first press was made;    *)
(* run.ups counts the previous-line presses since scroll-to-top (-1 once another  *)
(* scroll key interrupted them).                                                  *)

ScenarioDetails == <<TopicDetail("a", 45)>>
ScenarioHeights == {20}

InitScenario ==
    /\ vsb \in {VerticalScrollableBlock_new([TopicDetails_default EXCEPT !.details = ScenarioDetails]),
                [VerticalScrollableBlock_default EXCEPT !.component.details = ScenarioDetails]}
    /\ chan = [open |-> TRUE, queue |-> << >>]
    /\ crashed = FALSE
    /\ last = Call("new", NoKey, NoAction, 0, Ok(None), Ok(None))
    /\ track = "none"
    /\ focus = "Decorator"
    /\ help = Help_default
    /\ rd = RecordDetails_default
    /\ sc = Schemas_default
    /\ run = [n |-> 0, framed |-> FALSE, drawn |-> FALSE, ups |-> -1]
    /\ host = NoHost
    /\ td = TopicDetails_default

ScenarioKeyEvent ==
    \E key \in ScrollKeys, checked \in BOOLEAN :
        LET r == VerticalScrollableBlock_handle_key_events(vsb, key, chan.open, Ok(None), checked)
        IN
        /\ ~crashed
        /\ key.code \in {"j", "Down"} => run.n < MaxPresses
        /\ vsb' = r.c
        /\ crashed' = r.panic
        /\ last' = Call("handle_key_events", key, NoAction, 0, Ok(None), r.res)
        /\ track' = TrackKey(key)
        /\ key.code \in {"k", "Up"} => run.ups < MaxPresses
        /\ run' = CASE key.code \in {"j", "Down"} ->
                          [run EXCEPT !.n = IF run.n >= 0 THEN run.n + 1 ELSE -1, !.ups = -1]
                    [] key.code = "[" -> [run EXCEPT !.n = 0, !.framed = run.drawn, !.ups = 0]
                    [] key.code \in {"k", "Up"} ->
                          [run EXCEPT !.n = -1,
                                      !.ups = IF run.ups >= 0 THEN run.ups + 1 ELSE -1]
                    [] OTHER -> [run EXCEPT !.n = -1, !.ups = -1]
        /\ UNCHANGED <<chan, focus, help, rd, sc, host, td>>

ScenarioDraw ==
    \E height \in ScenarioHeights, checked \in BOOLEAN :
        LET r == VerticalScrollableBlock_draw(vsb, height, checked) IN
        /\ ~crashed
        /\ vsb' = r.c
        /\ crashed' = r.panic
        /\ last' = Call("draw", NoKey, NoAction, height, Ok(None), r.res)
        /\ track' = TrackDraw(vsb, height)
        /\ run' = [run EXCEPT !.drawn = TRUE, !.framed = run.framed \/ run.n = 0]
        /\ UNCHANGED <<chan, focus, help, rd, sc, host, td>>

NextScenario ==
    \/ ScenarioKeyEvent
    \/ ScenarioDraw

SpecScenario == InitScenario /\ [][NextScenario]_vars

-----------------------------------------------------------------------------
(* The decorator over content as tall as a u16 can tell.  The offsets followed *)
(* are those within MaxOffset of either end of the u16 range.                  *)

TallHeights == {U16_MAX - 1, U16_MAX, U16_MAX + 1}

NearEnds(scroll) == scroll <= MaxOffset \/ scroll >= U16_MAX - MaxOffset

InitOverflow ==
    /\ vsb \in {VerticalScrollableBlock_new(Any_component(h)) : h \in TallHeights}
    /\ chan = [open |-> TRUE, queue |-> << >>]
    /\ crashed = FALSE
    /\ last = Call("new", NoKey, NoAction, 0, Ok(None), Ok(None))
    /\ track = "none"
    /\ focus = "Decorator"
    /\ help = Help_default
    /\ rd = RecordDetails_default
    /\ sc = Schemas_default
    /\ run = NoRun
    /\ host = NoHost
    /\ td = TopicDetails_default

OverflowKeyEvent ==
    /\ KeyEvent(ScrollKeys)
    /\ NearEnds(vsb'.scroll)

OverflowDraw ==
    \E height \in 0..MaxHeight, checked \in BOOLEAN :
        LET r == VerticalScrollableBlock_draw(vsb, height, checked) IN
        /\ ~crashed
        /\ Apply(r, Call("draw", NoKey, NoAction, height, Ok(None), r.res), TrackDraw(vsb, height))

NextOverflow ==
    \/ OverflowKeyEvent
    \/ OverflowDraw

SpecOverflow == InitOverflow /\ [][NextOverflow]_vars

-----------------------------------------------------------------------------
(* The panels that publish: RecordDetails, Schemas and the decorated             *)
(* TopicDetails, each with its action handler registered, and Help, which never  *)
(* publishes.  The focused one                                                   *)
(* receives the keys and the actions taken off the channel; the receiver may be  *)
(* dropped at any time.                                                          *)

InitPublish ==
    /\ focus \in {"Help", "RecordDetails", "Schemas", "Decorator"}
    /\ vsb = VerticalScrollableBlock_register_action_handler(
                 VerticalScrollableBlock_new(TopicDetails_default), "tx")
    /\ chan = [open |-> TRUE, queue |-> << >>]
    /\ crashed = FALSE
    /\ last = Call("new", NoKey, NoAction, 0, Ok(None), Ok(None))
    /\ track = "none"
    /\ help = Help_default
    /\ rd = RecordDetails_register_action_handler(RecordDetails_default, "tx")
    /\ sc = Schemas_register_action_handler(Schemas_default, "tx")
    /\ run = NoRun
    /\ host = NoHost
    /\ td = TopicDetails_default

PublishKeys == {Key(c, FALSE) : c \in {"o", "s", "c", "e", "j", "x"}} \cup {Key("p", TRUE)}

\* what handle_key_events of the focused component makes of a key
Focused_handle_key_events(key, open) ==
    IF focus = "Decorator"
    THEN VerticalScrollableBlock_handle_key_events(vsb, key, open, Ok(None), FALSE)
    ELSE Panel_handle_key_events(Panel, key, open)

PublishKeyEvent ==
    \/ PanelKeyEvent(PublishKeys)
    \/ /\ focus = "Decorator"
       /\ KeyEvent(PublishKeys)

PublishInputs ==
    {ShowRecord(r) : r \in {R1, R2}}
    \cup {SchemasAction(kv[1], kv[2]) : kv \in SchemaPairs}
    \cup {Search("q")}
    \cup {TopicDetailsAction(d) : d \in DetailsSet}

\* an action from outside the panels (a result of the host's background work)
PublishUpdate ==
    \/ PanelUpdate(PublishInputs)
    \/ /\ focus = "Decorator"
       /\ Update(PublishInputs)

\* the host takes the oldest action off the channel and delivers it
PublishDispatch ==
    /\ ~crashed
    /\ chan.queue # << >>
    /\ LET action == Head(chan.queue) IN
       IF focus = "Decorator"
       THEN LET r == VerticalScrollableBlock_update(vsb, action, Ok(None)) IN
            /\ vsb' = r.c
            /\ chan' = [chan EXCEPT !.queue = Tail(chan.queue)]
            /\ crashed' = r.panic
            /\ last' = Call("update", NoKey, action, 0, Ok(None), r.res)
            /\ track' = TrackUpdate(vsb, r.c)
            /\ UNCHANGED panels
       ELSE LET r == Panel_update(Panel, action) IN
            /\ help' = IF focus = "Help" THEN r.c ELSE help
            /\ rd' = IF focus = "RecordDetails" THEN r.c ELSE rd
            /\ sc' = IF focus = "Schemas" THEN r.c ELSE sc
            /\ chan' = [chan EXCEPT !.queue = Tail(chan.queue)]
            /\ crashed' = r.panic
            /\ last' = CallOf(focus, "update", NoKey, action, 0, Ok(None), r.res, Was(Panel))
            /\ UNCHANGED <<vsb, track, focus, run, host, td>>

NextPublish ==
    \/ PublishKeyEvent
    \/ PublishUpdate
    \/ PublishDispatch
    \/ CloseChannel

SpecPublish == InitPublish /\ [][NextPublish]_vars

-----------------------------------------------------------------------------
(* Frames: the host draws the focused component frame after frame.  The help     *)
(* panel starts either freshly opened or after it stayed open, untouched, for    *)
(* almost ten minutes of frames.                                                 *)

InitFrames ==
    /\ focus \in PanelNames \cup {"Decorator"}
    /\ vsb = VerticalScrollableBlock_new(TopicDetails_default)
    /\ chan = [open |-> TRUE, queue |-> << >>]
    /\ crashed = FALSE
    /\ last = Call("new", NoKey, NoAction, 0, Ok(None), Ok(None))
    /\ track = "none"
    /\ help \in {Help_default, [Help_default EXCEPT !.rendered = TEN_MINUTES_FRAME - 1]}
    /\ focus # "Help" => help = Help_default
    /\ rd = RecordDetails_default
    /\ sc = Schemas_default
    /\ run = NoRun
    /\ host = NoHost
    /\ td = TopicDetails_default

\* the frames followed: the first ones after a key, and the ones around the tenth
\* minute
FollowedFrame(c) ==
    \/ c.rendered < MaxRendered
    \/ /\ c.rendered >= TEN_MINUTES_FRAME - 1
       /\ c.rendered <= TEN_MINUTES_FRAME + MaxRendered

FramesDraw ==
    \/ /\ focus = "Decorator"
       /\ Draw
    \/ /\ ~crashed
       /\ focus \in PanelNames
       /\ focus = "Help" => FollowedFrame(help)
       /\ \E ctx \in Contexts :
              \E height \in PanelHeights(Panel_length(Panel, ctx)) :
                  LET r == Panel_draw(Panel, height, ctx) IN
                  ApplyPanel(r, CallOf(focus, "draw", NoKey,
                                       [type |-> "None", ctx |-> ctx],
                                       height, Ok(None), r.res, Was(Panel)))

FramesKeyEvent ==
    \/ PanelKeyEvent(PanelKeys)
    \/ /\ focus = "Decorator"
       /\ KeyEvent(ScrollKeys)

FramesUpdate ==
    \/ PanelUpdate(PanelInputs)
    \/ /\ focus = "Decorator"
       /\ Update({TopicDetailsAction(d) : d \in DetailsSet})

NextFrames == FramesKeyEvent \/ FramesUpdate \/ FramesDraw

SpecFrames == InitFrames /\ [][NextFrames]_vars

-----------------------------------------------------------------------------
(* The host loop: it routes a key to the focused panel, drains the action queue  *)
(* once per iteration and broadcasts each drained action to every panel's        *)
(* update, in PanelOrder.  What a handler sends or yields is published on the    *)
(* queue.  host.published logs the publications, host.delivered the deliveries.  *)

Stamp(out, by, reaction) ==
    [i \in 1..Len(out) |->
        [action |-> out[i], pass |-> host.pass, by |-> by, reaction |-> reaction]]

\* the action a handler yields in its result
Yielded(res) == IF res.ok /\ res.val # None THEN <<res.val[1]>> ELSE << >>

\* one drain takes what the queue holds
Mutant_drain_loses_oldest(queue) == IF queue = << >> THEN << >> ELSE Tail(queue)

Host_drain(queue) == queue

\* the newest action first
Mutant_next_takes_newest(batch) == Len(batch)

\* the place in the batch of the action broadcast next: the oldest
Host_next(batch) == 1

Remove(seq, i) == SubSeq(seq, 1, i - 1) \o SubSeq(seq, i + 1, Len(seq))

\* the reaction joins the pass under way
Mutant_enqueue_into_batch(queue, batch, out) == [queue |-> queue, batch |-> batch \o out]

\* what a panel publishes while the pass is under way waits in the queue
Host_enqueue(queue, batch, out) == [queue |-> queue \o out, batch |-> batch]

Host_update(p, action, choice) ==
    CASE p = "Decorator" -> VerticalScrollableBlock_update(vsb, action, choice)
      [] p = "Help" -> Quiet(help)
      [] p = "RecordDetails" -> RecordDetails_update(rd, action)
      [] p = "Schemas" -> Schemas_update(sc, action)

HostPanels == {PanelOrder[i] : i \in 1..Len(PanelOrder)}

InitHost ==
    /\ focus \in {"Decorator", "RecordDetails", "Schemas"}
    /\ vsb = VerticalScrollableBlock_new(Any_component(0))
    /\ chan = [open |-> TRUE, queue |-> << >>]
    /\ crashed = FALSE
    /\ last = Call("new", NoKey, NoAction, 0, Ok(None), Ok(None))
    /\ track = "none"
    /\ help = Help_default
    /\ rd = RecordDetails_register_action_handler(RecordDetails_default, "tx")
    /\ sc = Schemas_register_action_handler(Schemas_default, "tx")
    /\ run = NoRun
    /\ host = NoHost
    /\ td = TopicDetails_default

SetPanel(p, c) ==
    /\ vsb' = IF p = "Decorator" THEN c ELSE vsb
    /\ help' = IF p = "Help" THEN c ELSE help
    /\ rd' = IF p = "RecordDetails" THEN c ELSE rd
    /\ sc' = IF p = "Schemas" THEN c ELSE sc

HostKeys == {Key("s", FALSE), Key("c", FALSE)}

\* a key event, between two passes
HostKeyEvent ==
    \E key \in HostKeys,
       choice \in (IF focus = "Decorator" THEN ChoicesOf(vsb.component) ELSE {Ok(None)}) :
        LET r == IF focus = "Decorator"
                 THEN VerticalScrollableBlock_handle_key_events(vsb, key, chan.open,
                                                                choice, FALSE)
                 ELSE Panel_handle_key_events(Panel, key, chan.open)
            out == r.sent \o Yielded(r.res)
        IN
        /\ ~crashed
        /\ host.batch = << >>
        /\ Len(host.published) + Len(out) <= MaxPublished
        /\ SetPanel(focus, r.c)
        /\ chan' = [chan EXCEPT !.queue = chan.queue \o out]
        /\ host' = [host EXCEPT !.published = @ \o Stamp(out, focus, FALSE)]
        /\ crashed' = r.panic
        /\ last' = CallOf(focus, "handle_key_events", key, NoAction, 0, choice, r.res,
                          [scroll |-> 0, scroll_length |-> 0])
        /\ UNCHANGED <<track, focus, run, td>>

HostResults ==
    {ShowRecord(R2), ShowRecord(R3), SchemasAction(Some(S1), None)}

\* a background task of the host delivers its result as an action
HostPublish ==
    \E action \in HostResults :
        /\ ~crashed
        /\ chan.open
        /\ Len(host.published) < MaxPublished
        /\ chan' = [chan EXCEPT !.queue = chan.queue \o <<action>>]
        /\ host' = [host EXCEPT !.published = @ \o Stamp(<<action>>, "Host", FALSE)]
        /\ last' = CallOf("Host", "publish", NoKey, action, 0, Ok(None), Ok(None),
                          [scroll |-> 0, scroll_length |-> 0])
        /\ UNCHANGED <<vsb, crashed, track, focus, help, rd, sc, run, td>>

\* a dispatch pass begins
HostDrain ==
    /\ ~crashed
    /\ host.batch = << >>
    /\ Host_drain(chan.queue) # << >>
    /\ host' = [host EXCEPT !.pass = @ + 1, !.batch = Host_drain(chan.queue), !.at = 1]
    /\ chan' = [chan EXCEPT !.queue = << >>]
    /\ last' = CallOf("Host", "drain", NoKey, NoAction, 0, Ok(None), Ok(None),
                      [scroll |-> 0, scroll_length |-> 0])
    /\ UNCHANGED <<vsb, crashed, track, focus, help, rd, sc, run, td>>

\* the results a panel's update can return while the model follows the publications
RoomFor(choice) == Len(host.published) + Len(Yielded(choice)) <= MaxPublished

\* the pass delivers the action to the next panel
HostDeliver ==
    LET p == PanelOrder[host.at]
        action == host.batch[Host_next(host.batch)] IN
    \E choice \in (IF p = "Decorator" THEN {c \in ChoicesOf(vsb.component) : RoomFor(c)}
                   ELSE {Ok(None)}) :
        LET r == Host_update(p, action, choice)
            out == r.sent \o Yielded(r.res)
            q == Host_enqueue(chan.queue, host.batch, out)
            done == host.at = Len(PanelOrder)
        IN
        /\ ~crashed
        /\ host.batch # << >>
        /\ SetPanel(p, r.c)
        /\ chan' = [chan EXCEPT !.queue = q.queue]
        /\ host' = [host EXCEPT
                       !.published = @ \o Stamp(out, p, TRUE),
                       !.delivered[p] = Append(@, [action |-> action, pass |-> host.pass]),
                       !.at = IF done THEN 1 ELSE @ + 1,
                       !.batch = IF done THEN Remove(q.batch, Host_next(host.batch))
                                 ELSE q.batch]
        /\ crashed' = r.panic
        /\ last' = CallOf(p, "update", NoKey, action, 0, choice, r.res,
                          [scroll |-> 0, scroll_length |-> 0])
        /\ UNCHANGED <<track, focus, run, td>>

NextHost == HostKeyEvent \/ HostPublish \/ HostDrain \/ HostDeliver

SpecHost == InitHost /\ [][NextHost]_vars

\* the host loop keeps draining the queue
SpecHostLive == SpecHost /\ WF_vars(HostDrain) /\ WF_vars(HostDeliver)

-----------------------------------------------------------------------------
(* TopicDetailsComponent on its own: the keys and the actions reach the panel    *)
(* without the decorator in between.                                             *)

InitTopic ==
    /\ focus = "TopicDetails"
    /\ vsb = VerticalScrollableBlock_default
    /\ chan = [open |-> TRUE, queue |-> << >>]
    /\ crashed = FALSE
    /\ last = Call("new", NoKey, NoAction, 0, Ok(None), Ok(None))
    /\ track = "none"
    /\ help = Help_default
    /\ rd = RecordDetails_default
    /\ sc = Schemas_default
    /\ run = NoRun
    /\ host = NoHost
    /\ td = TopicDetails_default

\* the selection before the call
Selected(c) == [scroll |-> c.selected, scroll_length |-> SumGroups(c.details)]

ApplyTopic(r, call) ==
    /\ td' = r.c
    /\ chan' = [chan EXCEPT !.queue = chan.queue \o r.sent]
    /\ crashed' = r.panic
    /\ last' = call
    /\ UNCHANGED <<vsb, track, focus, help, rd, sc, run, host>>

TopicKeyEvent ==
    \E key \in ScrollKeys \cup {Key("x", FALSE)} :
        LET r == TopicDetails_handle_key_events(td, key, chan.open) IN
        /\ ~crashed
        /\ ApplyTopic(r, CallOf("TopicDetails", "handle_key_events", key, NoAction, 0,
                                Ok(None), r.res, Selected(td)))

TopicInputs ==
    {TopicDetailsAction(d) : d \in DetailsSet}
    \cup {RequestTopicDetails({"a"}), NewView("Schemas")}

TopicUpdate ==
    \E action \in TopicInputs :
        LET r == TopicDetails_update(td, action) IN
        /\ ~crashed
        /\ ApplyTopic(r, CallOf("TopicDetails", "update", NoKey, action, 0,
                                Ok(None), r.res, Selected(td)))

NextTopic == TopicKeyEvent \/ TopicUpdate

SpecTopic == InitTopic /\ [][NextTopic]_vars

-----------------------------------------------------------------------------
(* RecordDetailsComponent with its sender registered: the host hands it a key    *)
(* once the actions of the frame before have been taken off the channel.         *)

InitRecord ==
    /\ focus = "RecordDetails"
    /\ vsb = VerticalScrollableBlock_default
    /\ chan = [open |-> TRUE, queue |-> << >>]
    /\ crashed = FALSE
    /\ last = Call("new", NoKey, NoAction, 0, Ok(None), Ok(None))
    /\ track = "none"
    /\ help = Help_default
    /\ rd = RecordDetails_register_action_handler(RecordDetails_default, "tx")
    /\ sc = Schemas_default
    /\ run = NoRun
    /\ host = NoHost
    /\ td = TopicDetails_default

RecordKeyEvent ==
    /\ chan.queue = << >>
    /\ PanelKeyEvent({Key(c, FALSE) : c \in {"o", "s", "c", "e", "j", "x"}})

RecordInputs == {ShowRecord(R1), ShowRecord(R2), Search("q"), Search("r")}

RecordUpdate == PanelUpdate(RecordInputs)

\* the host asks the panel for the shortcuts of its status bar
RecordShortcuts ==
    /\ ~crashed
    /\ last' = CallOf("RecordDetails", "shortcuts", NoKey, NoAction, 0, Ok(None),
                      Ok(RecordDetails_shortcuts(rd)), Was(rd))
    /\ UNCHANGED <<vsb, chan, crashed, track, panels>>

NextRecord ==
    \/ RecordKeyEvent
    \/ RecordUpdate
    \/ PublishDispatch
    \/ CloseChannel
    \/ RecordShortcuts

SpecRecord == InitRecord /\ [][NextRecord]_vars

-----------------------------------------------------------------------------
(* Properties of the decorator *)

AfterDraw == last.op = "draw" /\ last.panel = "Decorator" /\ ~crashed

Max(a, b) == IF a > b THEN a ELSE b

\* C1: after any sequence of scroll keys, the offset a draw uses lies in
\* [0, max(0, content_length - viewport_height)]
C1_EffectiveOffsetInBounds ==
    AfterDraw =>
        /\ 0 <= vsb.scroll
        /\ vsb.scroll <= Max(0, ContentHeight(vsb) - last.height)

\* C2: after a draw whose content exceeds the rectangle, 0 <= scroll <= scroll_length
\* for the scroll_length just recomputed, and the scrollbar position is that offset
C2_DrawClampsOffset ==
    (AfterDraw /\ last.height < ContentHeight(vsb)) =>
        /\ 0 <= vsb.scroll
        /\ vsb.scroll <= vsb.scroll_length
        /\ vsb.scrollbar_state.position = vsb.scroll

\* C3: after a draw whose content fits the rectangle, the offset is 0 and the
\* scrollbar's content length is 0, whatever the offset was before
C3_FitResetsOffset ==
    (AfterDraw /\ ContentHeight(vsb) <= last.height) =>
        /\ vsb.scroll = 0
        /\ vsb.scrollbar_state.content_length = 0

C3_Witness ==
    /\ AfterDraw
    /\ ContentHeight(vsb) <= last.height
    /\ ContentHeight(vsb) > 0
    /\ last.was.scroll > 0
    /\ vsb.scroll = 0

\* C4: a key outside the scroll vocabulary returns what the inner component's
\* handler returns for it and leaves the inner component as the direct call would
C4_PassThroughResult ==
    [][(last'.op = "handle_key_events" /\ last'.key.code \notin ScrollCodes) =>
         LET r == Inner_handle_key_events(vsb.component, last'.key, chan.open, last'.choice)
         IN  /\ last'.res = r.res
             /\ vsb'.component = r.c]_vars

\* C5: a scroll key never reaches the inner component: its state is unchanged,
\* nothing is published, only the decorator's offset may change, the result is Ok(None)
C5_ScrollKeysIntercepted ==
    [][(last'.op = "handle_key_events" /\ last'.key.code \in ScrollCodes) =>
         /\ vsb'.component = vsb.component
         /\ chan' = chan
         /\ vsb'.scroll_length = vsb.scroll_length
         /\ vsb'.scrollbar_state = vsb.scrollbar_state
         /\ last'.res = Ok(None)
         /\ ~crashed']_vars

\* C6: id, shortcuts, update, handle_mouse_events, init and register_action_handler
\* return the inner component's result, change it as the direct call does, and leave
\* scroll and scroll_length alone
C6_Delegation ==
    [][LET c == vsb.component
           expected ==
               CASE last'.op = "id" ->
                       [c |-> c, res |-> Ok(Some(Inner_id(c)))]
                 [] last'.op = "shortcuts" ->
                       [c |-> c, res |-> Ok(Inner_shortcuts(c))]
                 [] last'.op = "update" ->
                       Inner_update(c, last'.arg, last'.choice)
                 [] last'.op = "handle_mouse_events" ->
                       Inner_handle_mouse_events(c, last'.choice)
                 [] last'.op = "init" ->
                       Inner_init(c, last'.choice)
                 [] last'.op = "register_action_handler" ->
                       [c |-> Inner_register_action_handler(c, "tx"), res |-> Ok(None)]
                 [] OTHER -> [c |-> vsb'.component, res |-> last'.res]
       IN  last'.op \in {"id", "shortcuts", "update", "handle_mouse_events", "init",
                         "register_action_handler"} =>
               /\ vsb'.component = expected.c
               /\ last'.res = expected.res
               /\ vsb'.scroll = vsb.scroll
               /\ vsb'.scroll_length = vsb.scroll_length]_vars

C6_Witness ==
    /\ last.op = "update"
    /\ last.arg.type = "TopicDetails"
    /\ vsb.component.kind = "TopicDetails"
    /\ vsb.component.details = last.arg.details
    /\ last.arg.details # << >>
    /\ vsb.scroll > 0
    /\ vsb.scroll = last.was.scroll

\* C9: scroll-to-bottom, then the content grows, then a draw with no key in between:
\* the offset of that draw is the bound of the grown content
C9_BottomFollowsGrowth ==
    (AfterDraw /\ track = "grew") =>
        \/ vsb.scroll = vsb.scroll_length
        \/ vsb.scroll = Max(0, ContentHeight(vsb) - last.height)

-----------------------------------------------------------------------------
(* Properties of the panels *)

\* the offset of the focused component
Offset ==
    CASE focus = "Decorator" -> vsb.scroll
      [] focus = "Help" -> help.scroll.offset
      [] focus = "RecordDetails" -> rd.scroll.offset
      [] focus = "Schemas" -> sc.scroll.offset

\* what the four scroll operations make of an offset: the decorator bounds the
\* offset at once, a panel's ScrollState at its next draw
NextLine(panel, was) ==
    IF panel = "Decorator" THEN Min(was.scroll + 1, was.scroll_length) ELSE was.scroll + 1

PreviousLine(was) == IF was.scroll = 0 THEN 0 ELSE was.scroll - 1

Bottom(panel, was) == IF panel = "Decorator" THEN was.scroll_length ELSE U16_MAX

AfterKey(codes) ==
    /\ last.op = "handle_key_events"
    /\ last.key.code \in codes
    /\ ~last.key.ctrl
    /\ ~crashed

\* C7: in Help, RecordDetails, Schemas and the decorator alike, j and Down perform
\* next-line, k and Up previous-line, [ scroll-to-top and ] scroll-to-bottom on the
\* component's own offset
C7_SameVocabulary ==
    /\ AfterKey({"j", "Down"}) => Offset = NextLine(last.panel, last.was)
    /\ AfterKey({"k", "Up"}) => Offset = PreviousLine(last.was)
    /\ AfterKey({"["}) => Offset = 0
    /\ AfterKey({"]"}) => Offset = Bottom(last.panel, last.was)

\* C8: after RecordDetails.update(ShowRecord(r)) the panel holds r, its lines are
\* those of r and its offset is 0; after Schemas.update(Schemas(k, v)) the panel
\* holds k and v, its lines are those of k and v and its offset is 0
C8_UpdateReplacesContent ==
    /\ (last.op = "update" /\ last.panel = "RecordDetails" /\ last.arg.type = "ShowRecord") =>
           /\ rd.record = Some(last.arg.record)
           /\ rd.lines.of = Some(last.arg.record)
           /\ rd.scroll.offset = 0
           /\ ~crashed
    /\ (last.op = "update" /\ last.panel = "Schemas" /\ last.arg.type = "Schemas") =>
           /\ sc.key = last.arg.key
           /\ sc.value = last.arg.value
           /\ sc.lines = SchemaLines(last.arg.key, last.arg.value)
           /\ sc.scroll.offset = 0
           /\ ~crashed

-----------------------------------------------------------------------------
(* Properties of the scenario *)

\* C10: in a viewport of height 20 over 45 lines, 30 next-lines from offset 0 give
\* the offset 25 = 45 - 20 at the draw, and further next-lines leave it at 25 (read
\* in the code's favour: a frame had been drawn before the first press)
C10_ThirtyPressesReach25 ==
    (run.framed /\ run.n >= 30 /\ last.op = "draw") => vsb.scroll = 25

\* the state the decorator is in instead: the offset follows scroll_length = 45 - 20 + 2
C10_Witness ==
    /\ run.framed
    /\ run.n > 30
    /\ last.op = "draw"
    /\ last.height = 20
    /\ ContentHeight(vsb) = 45
    /\ vsb.scroll = 27

\* C11: scroll-to-top followed by any number of previous-lines leaves the offset at 0,
\* the offset of scroll-to-top alone: it neither goes negative nor wraps around
C11_TopAbsorbsPrevious ==
    run.ups >= 0 => (vsb.scroll = 0 /\ ~crashed)

C11_Witness ==
    /\ run.ups >= 3
    /\ run.drawn
    /\ last.op = "handle_key_events"
    /\ last.key.code \in {"k", "Up"}
    /\ last.was.scroll = 0
    /\ vsb.scroll = 0

\* C12: after every draw of the decorator, scroll_length is
\* max(0, content_height - viewport_height + margin) for the content and the rectangle
\* of that draw (margin 2), never the value of an earlier frame or of the constructor
C12_ScrollLengthRecomputed ==
    AfterDraw => vsb.scroll_length = Max(0, ContentHeight(vsb) - last.height + 2)

-----------------------------------------------------------------------------
(* Properties of publishing *)

\* the step is a key event that would publish on an open channel
PublishingKey ==
    /\ last'.op = "handle_key_events"
    /\ ~crashed
    /\ Focused_handle_key_events(last'.key, TRUE).sent # << >>

\* C13: with the receiver dropped, a key event that makes a panel publish (RecordDetails
\* o/s/c/e, Schemas c, TopicDetails Ctrl+P) does not panic
C13_ClosedChannelNoPanic ==
    [][(PublishingKey /\ ~chan.open) => ~crashed']_vars

\* C14: with the receiver dropped, a key handler of RecordDetails (o/s/c/e) or Schemas
\* (c) that publishes returns Ok(None), and leaves the panel as a successful publish does
C14_ClosedChannelSilent ==
    [][(PublishingKey /\ ~chan.open /\ focus \in {"RecordDetails", "Schemas"}) =>
           /\ last'.res = Ok(None)
           /\ Panel' = Focused_handle_key_events(last'.key, TRUE).c
           /\ ~crashed']_vars

\* the actions a key event step produces: those published and the one returned
Produced ==
    (Len(chan'.queue) - Len(chan.queue)) + (IF last'.res.ok THEN Len(last'.res.val) ELSE 0)

\* C16 as stated: handling one key makes the focused panel produce at most one action,
\* counting the one returned and those published on the channel
C16_AtMostOneAction ==
    [][(last'.op = "handle_key_events" /\ ~crashed) => Produced <= 1]_vars

\* the keys that publish a pair: s on RecordDetails, Ctrl+P on TopicDetails
PairKey ==
    \/ focus = "RecordDetails" /\ last'.key = Key("s", FALSE)
    \/ focus = "Decorator" /\ last'.key = Key("p", TRUE)

\* C16: handling one key makes the focused panel produce at most one action, except
\* s on RecordDetails and Ctrl+P on TopicDetails, which publish two or none; no key
\* handler returns an action
C16_AtMostTwoActions ==
    [][(last'.op = "handle_key_events" /\ ~crashed) =>
           /\ Produced <= (IF PairKey THEN 2 ELSE 1)
           /\ PairKey => Produced \in {0, 2}
           /\ last'.res.ok => last'.res.val = None]_vars

C16_Witness ==
    /\ last.op = "handle_key_events"
    /\ last.panel = "RecordDetails"
    /\ last.key = Key("s", FALSE)
    /\ ~crashed
    /\ Len(chan.queue) = 2
    /\ chan.queue[1].type = "RequestSchemasOf"
    /\ chan.queue[2] = NewView("Schemas")

\* the action variants the update of a panel matches
Handled(panel) ==
    CASE panel = "RecordDetails" -> {"ShowRecord", "Search"}
      [] panel = "Schemas" -> {"Schemas"}
      [] panel = "Decorator" -> {"Tick", "TopicDetails", "RequestTopicDetails"}
      [] OTHER -> {}

\* C15: update with an action variant the panel does not handle (RecordDetails: other
\* than ShowRecord and Search; Schemas: other than Schemas; TopicDetails: other than
\* Tick, TopicDetails and RequestTopicDetails) returns Ok(None), publishes nothing and
\* leaves every field of the panel unchanged
C15_UnhandledActionIsNoOp ==
    [][(/\ last'.op = "update"
        /\ focus \in {"RecordDetails", "Schemas", "Decorator"}
        /\ last'.arg.type \notin Handled(focus)) =>
           /\ last'.res = Ok(None)
           /\ \/ chan'.queue = chan.queue
              \/ chan.queue # << >> /\ chan'.queue = Tail(chan.queue)
           /\ <<vsb', rd', sc'>> = <<vsb, rd, sc>>
           /\ ~crashed']_vars

C15_Witness ==
    /\ last.op = "update"
    /\ last.panel = "RecordDetails"
    /\ last.arg.type = "Schemas"
    /\ rd.record # None
    /\ rd.search_query # ""
    /\ ~crashed

-----------------------------------------------------------------------------
(* Properties of the frames *)

\* what a frame shows: the scrollbar, the body and the issue overlay.  The offset
\* is the one ScrollState::draw resolves against the frame's bound.
Shown ==
    CASE focus = "Decorator" ->
            [scrollbar |-> IF vsb.scrollbar_state.content_length = 0 THEN None
                           ELSE Some(vsb.scrollbar_state),
             body |-> vsb.component, issue |-> FALSE]
      [] focus = "Help" ->
            [scrollbar |-> help.scroll, body |-> last.arg,
             issue |-> Help_draws_issue([help EXCEPT !.rendered = help.rendered - 1])]
      [] focus = "RecordDetails" ->
            [scrollbar |-> rd.scroll, body |-> rd.lines, issue |-> FALSE]
      [] focus = "Schemas" ->
            [scrollbar |-> sc.scroll, body |-> sc.lines, issue |-> FALSE]

WithoutIssue == [Shown EXCEPT !.issue = FALSE]

\* a frame drawn right after a frame, with the same rectangle and context
SameFrameAgain ==
    /\ last.op = "draw"
    /\ last'.op = "draw"
    /\ ~crashed'
    /\ last'.height = last.height
    /\ last'.arg = last.arg

-----------------------------------------------------------------------------
(* Properties of the host loop *)

DeliveredTo(p) == host.delivered[p]

\* C17: every panel's update receives the actions in the order in which they were
\* published, each at most once: what a panel has received so far is, action by
\* action, the beginning of what was published.
C17_DeliveredInPublishOrder ==
    \A p \in HostPanels :
        /\ Len(DeliveredTo(p)) <= Len(host.published)
        /\ \A i \in 1..Len(DeliveredTo(p)) :
               DeliveredTo(p)[i].action = host.published[i].action

\* the two actions of show_schema reached the schemas panel one after the other
C17_Witness ==
    \E i \in 1..(Len(DeliveredTo("Schemas")) - 1) :
        /\ host.published[i].by = "RecordDetails"
        /\ DeliveredTo("Schemas")[i].action.type = "RequestSchemasOf"
        /\ DeliveredTo("Schemas")[i + 1].action.type = "NewView"

HostIdle == ~crashed /\ host.batch = << >> /\ chan.queue = << >>

\* C18: an action a panel published during update reaches no panel, the publishing
\* one included, in the pass in which it was published, and once the host has
\* nothing left to dispatch every panel has received it exactly once.
C18_ReactionWaitsForNextPass ==
    \A i \in 1..Len(host.published) :
        host.published[i].reaction =>
            \A p \in HostPanels :
                /\ Len(DeliveredTo(p)) >= i =>
                       /\ DeliveredTo(p)[i].action = host.published[i].action
                       /\ DeliveredTo(p)[i].pass > host.published[i].pass
                /\ HostIdle => Len(DeliveredTo(p)) = Len(host.published)

C18_Witness ==
    \E i \in 1..Len(host.published) :
        /\ host.published[i].reaction
        /\ host.published[i].by = "Decorator"
        /\ \A p \in HostPanels : Len(DeliveredTo(p)) >= i
        /\ ~crashed

\* C19: as long as the host loop keeps draining, every action published on the
\* open queue is eventually delivered to every panel's update, unless a handler
\* panicked, which ends the loop.
C19_EventuallyDelivered ==
    \A i \in 1..MaxPublished :
        (Len(host.published) >= i)
            ~> (crashed \/ \A p \in HostPanels : Len(DeliveredTo(p)) >= i)

C19_Witness ==
    /\ HostIdle
    /\ Len(host.published) >= 2
    /\ \A p \in HostPanels : Len(DeliveredTo(p)) = Len(host.published)

-----------------------------------------------------------------------------
(* Properties of the defaults *)

\* C21: RecordDetails.update(ShowRecord(r)) recomputes the rendering without failing
\* for every record r, whatever its timestamp: none, or one chrono cannot represent
C21_RenderingNeverFails ==
    (last.op = "update" /\ last.panel = "RecordDetails" /\ last.arg.type = "ShowRecord") =>
        /\ ~crashed
        /\ rd.lines = RecordLines(last.arg.record, rd.lines.theme)

\* C22: Help.draw shows "unknown" as the highlighter's name when the render context
\* has no highlighter theme, and does not fail when the theme has no name
C22_HighlighterNameDefaults ==
    (last.op = "draw" /\ last.panel = "Help") =>
        /\ ~crashed
        /\ last.arg.ctx.highlighter_theme = None =>
               Help_highlighter_name(last.arg.ctx) = Some("unknown")

-----------------------------------------------------------------------------
(* Properties of TopicDetails *)

Topic == vsb.component

\* the step is the key Ctrl+P reaching TopicDetails through the decorator
RefreshKey ==
    /\ last'.op = "handle_key_events"
    /\ last'.panel = "Decorator"
    /\ last'.key = Key("p", TRUE)
    /\ Topic.kind = "TopicDetails"

\* C23: on Ctrl+P with an open channel, TopicDetails publishes Notification(Info,
\* "Refreshing data") and then RequestTopicDetails with the set of the names of the
\* details it holds, and nothing else; it sets refreshing_data and returns Ok(None)
C23_RefreshPublishesPair ==
    [][(RefreshKey /\ chan.open) =>
           /\ chan'.queue = chan.queue \o <<Notification("Info", "Refreshing data"),
                                            RequestTopicDetails(Names(Topic.details))>>
           /\ Topic' = [Topic EXCEPT !.refreshing_data = TRUE]
           /\ last'.res = Ok(None)
           /\ ~crashed']_vars

C23_Witness ==
    /\ last.op = "handle_key_events"
    /\ last.key = Key("p", TRUE)
    /\ ~crashed
    /\ Len(Topic.details) = 2
    /\ Len(chan.queue) = 2
    /\ chan.queue[2] = RequestTopicDetails({"a", "b"})
    /\ Topic.refreshing_data

\* the step is a call of TopicDetails through the decorator
ToTopic(op) ==
    /\ last'.op = op
    /\ last'.panel = "Decorator"
    /\ Topic.kind = "TopicDetails"

\* C24: update(RequestTopicDetails) sets refreshing_data only when the panel holds
\* details; once set, the flag stays set across every key event and every action
\* other than TopicDetails; update(TopicDetails(d)) clears it and replaces the
\* details by d
C24_RefreshingFollowsProtocol ==
    [][/\ (ToTopic("update") /\ last'.arg.type = "RequestTopicDetails") =>
              Topic'.refreshing_data = (Topic.refreshing_data \/ Topic.details # << >>)
       /\ (/\ Topic.refreshing_data
           /\ \/ ToTopic("handle_key_events")
              \/ ToTopic("update") /\ last'.arg.type # "TopicDetails") =>
              Topic'.refreshing_data
       /\ (ToTopic("update") /\ last'.arg.type = "TopicDetails") =>
              /\ ~Topic'.refreshing_data
              /\ Topic'.details = last'.arg.details]_vars

\* a request reached the panel while it held nothing and was not refreshing
C24_Witness ==
    /\ last.op = "update"
    /\ last.panel = "Decorator"
    /\ last.arg.type = "RequestTopicDetails"
    /\ Topic.details = << >>
    /\ ~Topic.refreshing_data
    /\ ~crashed

\* the number of rows: the consumer groups of all the details held
Rows == SumGroups(td.details)

AfterTopicKey(codes) ==
    /\ last.panel = "TopicDetails"
    /\ last.op = "handle_key_events"
    /\ last.key.code \in codes

\* the selection before the key was None or one of the rows
WasWithinRows == last.was.scroll = None \/ last.was.scroll[1] < Rows

\* C25: over n rows, with n = 0 each of j/Down, k/Up, [ and ] selects None; with
\* n > 0, j/Down moves None to 0 and row i to i + 1 but stays at n - 1, k/Up moves
\* None to 0 and row i to i - 1 but stays at 0, [ selects 0 and ] selects n - 1
C25_RowNavigation ==
    LET was == last.was.scroll IN
    /\ (AfterTopicKey(ScrollCodes) /\ Rows = 0) => td.selected = None
    /\ (AfterTopicKey({"j", "Down"}) /\ Rows > 0 /\ WasWithinRows) =>
           td.selected = Some(IF was = None THEN 0
                              ELSE IF was[1] = Rows - 1 THEN Rows - 1 ELSE was[1] + 1)
    /\ (AfterTopicKey({"k", "Up"}) /\ Rows > 0) =>
           td.selected = Some(IF was = None \/ was = Some(0) THEN 0 ELSE was[1] - 1)
    /\ (AfterTopicKey({"["}) /\ Rows > 0) => td.selected = Some(0)
    /\ (AfterTopicKey({"]"}) /\ Rows > 0) => td.selected = Some(Rows - 1)
    /\ AfterTopicKey(ScrollCodes) => ~crashed /\ last.res = Ok(None)

\* next on the last row
C25_Witness ==
    /\ AfterTopicKey({"j", "Down"})
    /\ Rows > 1
    /\ last.was.scroll = Some(Rows - 1)
    /\ td.selected = Some(Rows - 1)

\* C26: whatever keys and actions TopicDetails received, the selected row is None
\* or less than the number of rows
C26_SelectionWithinRows ==
    focus = "TopicDetails" => (td.selected = None \/ td.selected[1] < Rows)

-----------------------------------------------------------------------------
(* Properties of the record keys *)

\* the step is the key `code` handled by RecordDetails
RecordKey(codes) ==
    /\ last'.op = "handle_key_events"
    /\ last'.panel = "RecordDetails"
    /\ last'.key.code \in codes
    /\ ~last'.key.ctrl

Published == SubSeq(chan'.queue, Len(chan.queue) + 1, Len(chan'.queue))

Held == rd.record[1]

\* C27: on key s with an open channel, RecordDetails holding a record with a key or
\* value schema publishes RequestSchemasOf(key schema id, value schema id) and then
\* NewView(Schemas), and nothing else; holding a record without schemas it publishes
\* nothing; either way the panel is unchanged and the result is Ok(None)
C27_ShowSchemaPublishesPair ==
    [][(RecordKey({"s"}) /\ chan.open /\ rd.record # None) =>
           /\ Published = IF Held.key_schema # None \/ Held.value_schema # None
                          THEN <<RequestSchemasOf(SchemaId(Held.key_schema),
                                                  SchemaId(Held.value_schema)),
                                 NewView("Schemas")>>
                          ELSE << >>
           /\ Len(chan'.queue) >= Len(chan.queue)
           /\ rd' = rd
           /\ last'.res = Ok(None)
           /\ ~crashed']_vars

C27_Witness ==
    /\ last.panel = "RecordDetails"
    /\ last.key = Key("s", FALSE)
    /\ rd.record = Some(R2)
    /\ chan.queue = <<RequestSchemasOf(Some("k1"), None), NewView("Schemas")>>
    /\ ~crashed

\* C28: key s on a RecordDetails that holds no record does not fail: it publishes
\* nothing, leaves the panel unchanged and returns Ok(None)
C28_ShowSchemaWithoutRecord ==
    [][(RecordKey({"s"}) /\ rd.record = None) =>
           /\ ~crashed'
           /\ chan'.queue = chan.queue
           /\ rd' = rd
           /\ last'.res = Ok(None)]_vars

\* the action key o, c or e publishes for the record held
RecordAction(code) ==
    CASE code = "o" -> Open(Held)
      [] code = "e" -> Export(Held)
      [] code = "c" -> CopyToClipboard([record |-> Held, search_query |-> rd.search_query])

\* C29: on keys o, c and e with an open channel, RecordDetails holding a record
\* publishes exactly one action, Open, CopyToClipboard and Export respectively, with
\* the record held; holding none it publishes nothing; either way the panel is
\* unchanged and the result is Ok(None)
C29_RecordKeysPublishOne ==
    [][(RecordKey({"o", "c", "e"}) /\ chan.open) =>
           /\ Published = IF rd.record = None THEN << >>
                          ELSE <<RecordAction(last'.key.code)>>
           /\ Len(chan'.queue) >= Len(chan.queue)
           /\ rd' = rd
           /\ last'.res = Ok(None)
           /\ ~crashed']_vars

C29_Witness ==
    /\ last.panel = "RecordDetails"
    /\ last.key = Key("e", FALSE)
    /\ rd.record = Some(R1)
    /\ chan.queue = <<Export(R1)>>
    /\ ~crashed

\* the step delivers a Search action to RecordDetails
SearchDelivered ==
    /\ last'.op = "update"
    /\ last'.panel = "RecordDetails"
    /\ last'.arg.type = "Search"

\* C30: the clipboard payload of key c carries the record held and the query of the
\* most recent Search delivered ("" if none): a Search stores its query and changes
\* nothing else, no other step changes the stored query, and key c publishes the
\* stored query with the record
C30_ClipboardCarriesLastQuery ==
    [][/\ SearchDelivered => rd' = [rd EXCEPT !.search_query = last'.arg.query]
       /\ ~SearchDelivered => rd'.search_query = rd.search_query
       /\ (RecordKey({"c"}) /\ chan.open /\ rd.record # None) =>
              /\ Published # << >>
              /\ Published[1].type = "CopyToClipboard"
              /\ Published[1].payload.record = Held
              /\ Published[1].payload.search_query = rd.search_query]_vars

\* copied with the panel scrolled, after a search
C30_Witness ==
    /\ last.panel = "RecordDetails"
    /\ last.key = Key("c", FALSE)
    /\ rd.scroll.offset > 0
    /\ chan.queue = <<CopyToClipboard([record |-> R2, search_query |-> "r"])>>
    /\ ~crashed

-----------------------------------------------------------------------------
(* Properties of the shortcuts *)

\* the keys a shortcut's label names
ShortcutKeys(label) ==
    CASE label = "J/K" -> {"j", "k"}
      [] label = "UpDown" -> {"Up", "Down"}
      [] label = "S" -> {"s"}

Listed == {last.res.val[i] : i \in 1..Len(last.res.val)}

\* C31: RecordDetails.shortcuts() lists the shortcut S exactly when key s publishes
\* a schema request, that is when the record held has a key or a value schema, and
\* every key of every shortcut listed is one handle_key_events has an arm for
C31_ShortcutsAreMeaningful ==
    (last.op = "shortcuts" /\ last.panel = "RecordDetails") =>
        /\ "S" \in Listed <=>
               RecordDetails_handle_key_events(rd, Key("s", FALSE), TRUE).sent # << >>
        /\ \A label \in Listed : ShortcutKeys(label) \subseteq RecordDetails_key_arms

-----------------------------------------------------------------------------
(* Properties of the help panel's counter *)

HelpStep(op) == last'.op = op /\ last'.panel = "Help" /\ ~crashed'

\* C32: every key event, scroll key or not, resets Help's counter to 0; every draw
\* adds 1 to it; and a draw shows the issue overlay exactly when the counter it
\* starts with exceeds TEN_MINUTES_FRAME
C32_CounterOfFrames ==
    [][/\ HelpStep("handle_key_events") => help'.rendered = 0
       /\ HelpStep("draw") =>
              /\ help'.rendered = help.rendered + 1
              /\ Shown'.issue <=> help.rendered > TEN_MINUTES_FRAME]_vars

\* the frame drawn with the counter at TEN_MINUTES_FRAME: no overlay yet
C32_Witness ==
    /\ last.op = "draw"
    /\ last.panel = "Help"
    /\ help.rendered = TEN_MINUTES_FRAME + 1
    /\ ~Shown.issue
    /\ ~crashed

-----------------------------------------------------------------------------
(* Properties of the decorator's arithmetic *)

InU16(n) == n \in 0..U16_MAX

\* C33: the decorator's u16 arithmetic never overflows: in draw, for every content
\* height (capped at u16::MAX) and every rectangle height below it,
\* content_height - rect.height + 2 is a u16, and on j/Down scroll + 1 is a u16
C33_ArithmeticStaysInU16 ==
    [][/\ (last'.op = "draw" /\ last'.height < ContentHeight(vsb)) =>
              /\ InU16(ContentHeight(vsb) - last'.height + 2)
              /\ ~crashed'
       /\ (last'.op = "handle_key_events" /\ last'.key.code \in {"j", "Down"}) =>
              /\ InU16(vsb.scroll + 1)
              /\ ~crashed']_vars

\* the content is known to fit: the frame just drawn had room for it, or the
\* decorator was just built and no frame was drawn yet
KnownToFit ==
    \/ last.op = "draw" /\ last.panel = "Decorator" /\ ContentHeight(vsb) <= last.height
    \/ last.op = "new"

\* C34: while the content fits the viewport the offset stays 0: after a draw that
\* had room for the content, or before the first draw, a scroll key leaves it at 0
C34_OffsetStaysZeroWhileFits ==
    [][(/\ KnownToFit
        /\ ~crashed
        /\ last'.op = "handle_key_events"
        /\ last'.key.code \in ScrollCodes) => vsb'.scroll = 0]_vars

====
